---- MODULE Spec2Model ----
(***************************************************************************)
(* A model of the webar repository: the two Node.js static-asset servers   *)
(* (src/server.js, src/https-server.js) with the certificate bootstrap of  *)
(* https-server.js, and the browser client (src/app.js).                   *)
(*                                                                         *)
(* Strings that the code takes apart (request URLs, file paths,            *)
(* extensions) are sequences of one-character strings, so that             *)
(* path.extname and String.toLowerCase are computed, not assumed.          *)
(***************************************************************************)
EXTENDS Naturals, Sequences, FiniteSets, Bags, TLC

VARIABLES
    variant,      \* which program runs: "server.js" or "https-server.js"
    pc,           \* position of the program's top-level script
    keyFile,      \* contents of key.pem on disk
    certFile,     \* contents of cert.pem on disk
    startedBare,  \* key.pem and cert.pem were both absent at the start (history)
    toolResult,   \* how the external certificate tool ended (history)
    bootPath,     \* how the certificate bootstrap ended (history)
    keyPair,      \* the key pair generated in-process by the fallback
    optKey,       \* options.key   (what readFileSync('key.pem') returned)
    optCert,      \* options.cert  (what readFileSync('cert.pem') returned)
    httpPort,     \* port the plaintext listener is bound to, 0 when not bound
    httpsPort,    \* port the HTTPS listener is bound to, 0 when not bound
    fs,           \* the served directory: file name -> entry
    inflight,     \* bag of HTTPS requests whose fs.readFile has not called
                  \* back, each with the result of its read once it is made
    last,         \* the latest completed exchange (request and response)
    everAccepted  \* some listener has accepted a connection (history)

\* The browser client (src/app.js).
VARIABLES
    env,             \* the page's environment: location, SDK, media devices
    loaded,          \* DOMContentLoaded has fired and the app was constructed
    app,             \* the fields of the WebARVideoApp instance
    dom,             \* the overlays of the document
    videos,          \* the video elements appended to the document, in order
    hidden,          \* document.hidden
    listeners,       \* setupEventListeners has installed the listeners
    tasks,           \* the calls of requestCameraPermission, by their await
    sdkCalls,        \* what the client has asked of the SDK so far
    frame,           \* what the latest run of a render callback did
    checkPassed,     \* isSecureContext() has returned true (history)
    clicks,          \* clicks on the allow-camera button (history)
    cameraRequests   \* calls of getUserMedia (history)

serverVars == <<variant, pc, keyFile, certFile, startedBare, toolResult,
                bootPath, keyPair, optKey, optCert, httpPort, httpsPort, fs,
                inflight, last, everAccepted>>

clientVars == <<env, loaded, app, dom, videos, hidden, listeners, tasks,
                sdkCalls, frame, checkPassed, clicks, cameraRequests>>

vars == <<serverVars, clientVars>>

(***************************************************************************)
(* Bounds of the model.                                                    *)
(***************************************************************************)
MaxInFlight == 2
MaxClicks == 2

(***************************************************************************)
(* Ports, as the two programs set them.                                    *)
(***************************************************************************)
HttpListenPort == 8000
HttpsListenPort == 8001
RedirectPort == 8000
HttpsOnlyListenPort == 3000

(***************************************************************************)
(* Characters and strings.                                                 *)
(***************************************************************************)
UpperChars == <<"A","B","C","D","E","F","G","H","I","J","K","L","M",
                "N","O","P","Q","R","S","T","U","V","W","X","Y","Z">>

LowerChars == <<"a","b","c","d","e","f","g","h","i","j","k","l","m",
                "n","o","p","q","r","s","t","u","v","w","x","y","z">>

ToLowerChar(c) ==
    IF \E i \in 1..26 : UpperChars[i] = c
    THEN LowerChars[CHOOSE i \in 1..26 : UpperChars[i] = c]
    ELSE c

\* String.prototype.toLowerCase
ToLowerCase(s) == [i \in 1..Len(s) |-> ToLowerChar(s[i])]

(***************************************************************************)
(* path.extname (POSIX).  Node scans the path once from the right; what    *)
(* the scan leaves is stated here position by position.  Indices are       *)
(* 1-based and 0 stands for Node's -1:                                     *)
(*   end         the last character that is no "/" (Node's end - 1),       *)
(*   startPart   the first character after the last "/" before end,        *)
(*   startDot    the last "." in startPart..end,                           *)
(*   preDotState what the scan saw last to the left of startDot: nothing   *)
(*               ("none", Node's 0), a "." ("dot", 1) or another           *)
(*               character ("nondot", -1); the last character the scan     *)
(*               sees is the one at startPart.                             *)
(***************************************************************************)
Max0(S) == IF S = {} THEN 0 ELSE CHOOSE m \in S : \A n \in S : n <= m

ExtScan(path) ==
    LET end == Max0({i \in 1..Len(path) : path[i] # "/"})
        startPart == Max0({i \in 1..end : path[i] = "/"}) + 1
        startDot == Max0({i \in startPart..end : path[i] = "."})
    IN  [end |-> end, startPart |-> startPart, startDot |-> startDot,
         preDotState |-> IF startDot = 0 \/ startDot = startPart THEN "none"
                         ELSE IF path[startPart] = "." THEN "dot"
                         ELSE "nondot"]

Extname(path) ==
    LET st == ExtScan(path)
    IN  IF \/ st.startDot = 0
           \/ st.end = 0
           \/ st.preDotState = "none"
           \/ /\ st.preDotState = "dot"
              /\ st.startDot = st.end
              /\ st.startDot = st.startPart + 1
        THEN <<>>
        ELSE SubSeq(path, st.startDot, st.end)

(***************************************************************************)
(* The extension -> MIME type table of both handlers.                      *)
(***************************************************************************)
MimeTypes ==
    ( <<".","h","t","m","l">> :> "text/html" ) @@
    ( <<".","j","s">>         :> "text/javascript" ) @@
    ( <<".","c","s","s">>     :> "text/css" ) @@
    ( <<".","j","s","o","n">> :> "application/json" ) @@
    ( <<".","p","n","g">>     :> "image/png" ) @@
    ( <<".","j","p","g">>     :> "image/jpg" ) @@
    ( <<".","g","i","f">>     :> "image/gif" ) @@
    ( <<".","s","v","g">>     :> "image/svg+xml" ) @@
    ( <<".","w","a","v">>     :> "audio/wav" ) @@
    ( <<".","m","p","4">>     :> "video/mp4" ) @@
    ( <<".","w","o","f","f">> :> "application/font-woff" ) @@
    ( <<".","t","t","f">>     :> "application/font-ttf" ) @@
    ( <<".","e","o","t">>     :> "application/vnd.ms-fontobject" ) @@
    ( <<".","o","t","f">>     :> "application/font-otf" ) @@
    ( <<".","w","a","s","m">> :> "application/wasm" )

\* mimeTypes[extname] || 'application/octet-stream'
MimeLookup(extname) ==
    IF extname \in DOMAIN MimeTypes
    THEN MimeTypes[extname]
    ELSE "application/octet-stream"

\* Mutant of ContentType: the extension is looked up as written.
ContentTypeCaseSensitive(filePath) == MimeLookup(Extname(filePath))

\* const extname = String(path.extname(filePath)).toLowerCase();
\* const contentType = mimeTypes[extname] || 'application/octet-stream';
ContentType(filePath) == MimeLookup(ToLowerCase(Extname(filePath)))

\* Mutant of FilePath: no default document.
FilePathNoIndex(url) == <<".">> \o url

\* let filePath = '.' + req.url; if (filePath === './') filePath = './index.html';
FilePath(url) ==
    LET p == <<".">> \o url
    IN  IF p = <<".", "/">>
        THEN <<".", "/", "i","n","d","e","x",".","h","t","m","l">>
        ELSE p

(***************************************************************************)
(* The served directory.  A file name maps to "absent", "dir" (a           *)
(* directory, empty in the model), "locked" (a regular file the process    *)
(* may not read) or the data of a readable regular file.                   *)
(***************************************************************************)
IndexName == <<"i","n","d","e","x",".","h","t","m","l">>
ScriptName == <<"a","p","p",".","J","S">>
DataName == <<"d","a","t","a",".","x","y","z">>
NotesName == <<"n","o","t","e","s">>
AssetsName == <<"a","s","s","e","t","s">>

Names == {IndexName, ScriptName, DataName, NotesName, AssetsName}

FileData == {"v1", "v2"}

\* The entries each name takes in the model.
Entries(name) ==
    IF name = IndexName THEN {"absent", "v1", "v2"}
    ELSE IF name = ScriptName THEN {"v1", "locked"}
    ELSE IF name = DataName THEN {"v1"}
    ELSE IF name = NotesName THEN {"v1"}
    ELSE {"dir"}

FsStates == {f \in [Names -> FileData \cup {"absent", "dir", "locked"}] :
                \A n \in Names : f[n] \in Entries(n)}

\* The request URLs (req.url) the model sends.
RootUrl == <<"/">>
IndexUrl == <<"/">> \o IndexName
ScriptUrl == <<"/">> \o ScriptName
ScriptLowerUrl == <<"/","a","p","p",".","j","s">>
DataUrl == <<"/">> \o DataName
NotesUrl == <<"/">> \o NotesName
AssetsUrl == <<"/">> \o AssetsName
ScriptSlashUrl == ScriptUrl \o <<"/">>

Urls == {RootUrl, IndexUrl, ScriptUrl, ScriptLowerUrl, DataUrl, NotesUrl,
         AssetsUrl, ScriptSlashUrl}

\* The components of a path, "." and ".." among them: its maximal runs of
\* characters other than "/", in order.
Components(path) ==
    LET starts == {i \in 1..Len(path) :
                      path[i] # "/" /\ (i = 1 \/ path[i - 1] = "/")}
        EndOf(s) == CHOOSE j \in s..Len(path) :
                        /\ j = Len(path) \/ path[j + 1] = "/"
                        /\ \A k \in s..j : path[k] # "/"
        Nth(k) == CHOOSE s \in starts :
                      Cardinality({t \in starts : t < s}) = k - 1
    IN  [k \in 1..Cardinality(starts) |->
            SubSeq(path, Nth(k), EndOf(Nth(k)))]

Dot == <<".">>
DotDot == <<".", ".">>

\* The limits of the operating system on a name and on a path.
NameMax == 255
PathMax == 4096

\* The names of a resolved place joined by "/": the key of its entry.  The
\* place is relative to the working directory; a place above it starts
\* with ".." names.
RECURSIVE Join(_)
Join(stack) ==
    IF stack = <<>> THEN <<>>
    ELSE IF Len(stack) = 1 THEN stack[1]
    ELSE stack[1] \o <<"/">> \o Join(Tail(stack))

Lookup(f, name) == IF name \in DOMAIN f THEN f[name] ELSE "absent"

\* What is at a resolved place: the working directory and the directories
\* above it are directories; everything else is what f says, and absent
\* when f says nothing.
EntryAt(f, stack) ==
    IF \A i \in DOMAIN stack : stack[i] = DotDot
    THEN "dir"
    ELSE Lookup(f, Join(stack))

ReadError(code) == [err |-> code, data |-> ""]

\* Path resolution, component by component: each component is looked up
\* in the place reached so far, which has to be a directory; "." stays,
\* ".." goes to the directory above.
RECURSIVE Walk(_, _, _, _)
Walk(f, comps, i, stack) ==
    IF i > Len(comps) THEN [err |-> "none", stack |-> stack]
    ELSE IF EntryAt(f, stack) # "dir"
         THEN [err |-> "ENOTDIR", stack |-> stack]
    ELSE IF comps[i] = Dot THEN Walk(f, comps, i + 1, stack)
    ELSE IF comps[i] = DotDot
         THEN Walk(f, comps, i + 1,
                   IF stack # <<>> /\ stack[Len(stack)] # DotDot
                   THEN SubSeq(stack, 1, Len(stack) - 1)
                   ELSE Append(stack, DotDot))
    ELSE IF Len(comps[i]) > NameMax
         THEN [err |-> "ENAMETOOLONG", stack |-> stack]
    ELSE IF EntryAt(f, Append(stack, comps[i])) = "absent"
         THEN [err |-> "ENOENT", stack |-> stack]
    ELSE Walk(f, comps, i + 1, Append(stack, comps[i]))

(***************************************************************************)
(* fs.readFile(filePath, callback): what the callback receives, by POSIX   *)
(* path resolution from the working directory.                             *)
(***************************************************************************)
ReadFile(f, filePath) ==
    LET w == Walk(f, Components(filePath), 1, <<>>)
        e == EntryAt(f, w.stack)
        trailingSlash == filePath[Len(filePath)] = "/"
    IN  IF Len(filePath) >= PathMax THEN ReadError("ENAMETOOLONG")
        ELSE IF w.err # "none" THEN ReadError(w.err)
        ELSE CASE e = "dir"      -> ReadError("EISDIR")
               [] trailingSlash  -> ReadError("ENOTDIR")
               [] e = "locked"   -> ReadError("EACCES")
               [] OTHER          -> [err |-> "none", data |-> e]

(***************************************************************************)
(* Responses.                                                              *)
(***************************************************************************)
NoLocation == [scheme |-> "", host |-> "", port |-> 0, path |-> <<>>]

\* Mutant of Respond: the success branch sends a fixed content type.
RespondFixedType(contentType, result) ==
    IF result.err # "none"
    THEN IF result.err = "ENOENT"
         THEN [status |-> 404, ctype |-> "text/html", location |-> NoLocation,
               body |-> <<"<h1>404 Not Found</h1>">>, heads |-> 1, ends |-> 1]
         ELSE [status |-> 500, ctype |-> "none", location |-> NoLocation,
               body |-> <<"Server Error: ", result.err>>, heads |-> 1,
               ends |-> 1]
    ELSE [status |-> 200, ctype |-> "text/html", location |-> NoLocation,
          body |-> <<result.data>>, heads |-> 1, ends |-> 1]

\* Mutant of Respond: the branch of the other read errors writes the status
\* line and leaves the response open.
RespondUnended(contentType, result) ==
    IF result.err # "none"
    THEN IF result.err = "ENOENT"
         THEN [status |-> 404, ctype |-> "text/html", location |-> NoLocation,
               body |-> <<"<h1>404 Not Found</h1>">>, heads |-> 1, ends |-> 1]
         ELSE [status |-> 500, ctype |-> "none", location |-> NoLocation,
               body |-> <<>>, heads |-> 1, ends |-> 0]
    ELSE [status |-> 200, ctype |-> contentType, location |-> NoLocation,
          body |-> <<result.data>>, heads |-> 1, ends |-> 1]

\* The callback of fs.readFile: on each branch one writeHead and one end.
\* heads and ends count the calls of res.writeHead and res.end.
Respond(contentType, result) ==
    IF result.err # "none"
    THEN IF result.err = "ENOENT"
         THEN [status |-> 404, ctype |-> "text/html", location |-> NoLocation,
               body |-> <<"<h1>404 Not Found</h1>">>, heads |-> 1, ends |-> 1]
         ELSE [status |-> 500, ctype |-> "none", location |-> NoLocation,
               body |-> <<"Server Error: ", result.err>>, heads |-> 1,
               ends |-> 1]
    ELSE [status |-> 200, ctype |-> contentType, location |-> NoLocation,
          body |-> <<result.data>>, heads |-> 1, ends |-> 1]

\* The plaintext handler of server.js: writeHead(301, {Location}) and end().
Redirect(url) ==
    [status |-> 301, ctype |-> "none",
     location |-> [scheme |-> "https", host |-> "localhost",
                   port |-> RedirectPort, path |-> url],
     body |-> <<>>, heads |-> 1, ends |-> 1]

\* The synchronous part of the HTTPS handler: the values its callback closes over.
Request(url) ==
    [url |-> url, filePath |-> FilePath(url),
     contentType |-> ContentType(FilePath(url))]

\* What the HTTPS handler answers to url when its read sees directory f.
Handle(f, url) ==
    Respond(Request(url).contentType, ReadFile(f, Request(url).filePath))

(***************************************************************************)
(* The HTTPS handler of server.js (lines 20-59), translated on its own:    *)
(* its path, its table, its content type and its callback.                 *)
(***************************************************************************)
\* Mutant of ServerJsFilePath: no default document.
ServerJsFilePathRaw(url) == <<".">> \o url

\* let filePath = '.' + req.url; if (filePath === './') filePath = './index.html';
ServerJsFilePath(url) ==
    IF <<".">> \o url = <<".", "/">>
    THEN <<".", "/">> \o <<"i","n","d","e","x",".","h","t","m","l">>
    ELSE <<".">> \o url

ServerJsMimeTypes ==
    ( <<".","h","t","m","l">> :> "text/html" ) @@
    ( <<".","j","s">>         :> "text/javascript" ) @@
    ( <<".","c","s","s">>     :> "text/css" ) @@
    ( <<".","j","s","o","n">> :> "application/json" ) @@
    ( <<".","p","n","g">>     :> "image/png" ) @@
    ( <<".","j","p","g">>     :> "image/jpg" ) @@
    ( <<".","g","i","f">>     :> "image/gif" ) @@
    ( <<".","s","v","g">>     :> "image/svg+xml" ) @@
    ( <<".","w","a","v">>     :> "audio/wav" ) @@
    ( <<".","m","p","4">>     :> "video/mp4" ) @@
    ( <<".","w","o","f","f">> :> "application/font-woff" ) @@
    ( <<".","t","t","f">>     :> "application/font-ttf" ) @@
    ( <<".","e","o","t">>     :> "application/vnd.ms-fontobject" ) @@
    ( <<".","o","t","f">>     :> "application/font-otf" ) @@
    ( <<".","w","a","s","m">> :> "application/wasm" )

\* const extname = String(path.extname(filePath)).toLowerCase();
\* const contentType = mimeTypes[extname] || 'application/octet-stream';
ServerJsContentType(filePath) ==
    LET extname == ToLowerCase(Extname(filePath))
    IN  IF extname \in DOMAIN ServerJsMimeTypes
        THEN ServerJsMimeTypes[extname]
        ELSE "application/octet-stream"

\* The callback of fs.readFile in server.js.
ServerJsRespond(contentType, result) ==
    IF result.err # "none"
    THEN IF result.err = "ENOENT"
         THEN [status |-> 404, ctype |-> "text/html", location |-> NoLocation,
               body |-> <<"<h1>404 Not Found</h1>">>, heads |-> 1, ends |-> 1]
         ELSE [status |-> 500, ctype |-> "none", location |-> NoLocation,
               body |-> <<"Server Error: ", result.err>>, heads |-> 1,
               ends |-> 1]
    ELSE [status |-> 200, ctype |-> contentType, location |-> NoLocation,
          body |-> <<result.data>>, heads |-> 1, ends |-> 1]

\* The synchronous part of the handler of server.js.
ServerJsRequest(url) ==
    [url |-> url, filePath |-> ServerJsFilePath(url),
     contentType |-> ServerJsContentType(ServerJsFilePath(url))]

\* What the handler of server.js answers to url when its read sees f.
ServerJsHandle(f, url) ==
    ServerJsRespond(ServerJsRequest(url).contentType,
                    ReadFile(f, ServerJsRequest(url).filePath))

\* Each program runs its own handler.
RequestOf(v, url) ==
    IF v = "server.js" THEN ServerJsRequest(url) ELSE Request(url)

RespondOf(v, contentType, result) ==
    IF v = "server.js" THEN ServerJsRespond(contentType, result)
    ELSE Respond(contentType, result)

\* A function with its values computed once and kept: comparing a function
\* makes the model checker enumerate it.
Tabulated(t) == IF t = t THEN t ELSE t

\* The functions of the handlers on the URLs and the directories of the
\* model, tabulated: every entry is the value of the definition it names.
Programs == {"server.js", "https-server.js"}

Requests ==
    Tabulated([x \in Programs \X Urls |-> RequestOf(x[1], x[2])])

FilePaths == {Requests[x].filePath : x \in Programs \X Urls}

Reads ==
    Tabulated([x \in FsStates \X FilePaths |-> ReadFile(x[1], x[2])])

Answers ==
    Tabulated([x \in FsStates \X Urls |-> Handle(x[1], x[2])])

ServerJsAnswers ==
    Tabulated([x \in FsStates \X Urls |-> ServerJsHandle(x[1], x[2])])

NoExchange ==
    [listener |-> "none", url |-> <<>>, filePath |-> <<>>,
     result |-> ReadError("none"),
     response |-> [status |-> 0, ctype |-> "none", location |-> NoLocation,
                   body |-> <<>>, heads |-> 0, ends |-> 0]]

\* The exchange ended in an error response of the HTTPS handler.
Failed(exchange) == exchange.response.status \in {404, 500}

(***************************************************************************)
(* key.pem and cert.pem.  A file's contents are what kind of PEM it holds  *)
(* and which generation pass wrote it: "old" and "older" are passes of     *)
(* earlier runs, "tool" and "fallback" the two passes of this run.         *)
(***************************************************************************)
AbsentFile == [type |-> "absent", gen |-> "none"]
Unread == [type |-> "unread", gen |-> "none"]
NoPair == [privateKey |-> Unread, publicKey |-> Unread]

\* The files a program may find when it is started.
StartKeys == {AbsentFile, [type |-> "key", gen |-> "old"]}
StartCerts == {AbsentFile, [type |-> "cert", gen |-> "old"],
               [type |-> "cert", gen |-> "older"]}

\* Only https-server.js generates a certificate before it reads one.
HasBootstrap(v) == v = "https-server.js"

\* What a run of the tool leaves of a file it was to write: the file as it
\* was ("untouched"), a file of 0 bytes, part of the PEM text, or all of it.
Left == {"untouched", "empty", "partial", "written"}

\* How an execSync('openssl req -x509 ...') can end.  execSync returns when
\* the child has exited with status 0 and throws otherwise (no such program,
\* another exit status, death by a signal).  The script learns nothing else
\* from the call: with stdio 'inherit' it does not see the tool's output, and
\* it does not look at the files.  What the tool has done to each file by
\* then is the tool's and the file system's affair, whichever way it exits:
\* on a full disk openssl exits 0 with a file of 0 bytes.
ToolOutcomes == [exit : {"returned", "threw"}, key : Left, cert : Left]

\* The tool has not been invoked.
ToolNotRun == [exit |-> "none", key |-> "untouched", cert |-> "untouched"]

\* No such program: execSync throws and no file was touched.
ToolUnavailable == [exit |-> "threw", key |-> "untouched", cert |-> "untouched"]

\* The tool exited 0 with both files written in full.
ToolOk == [exit |-> "returned", key |-> "written", cert |-> "written"]

\* A file after a run of the tool that left it as left says.
AfterTool(file, left, whole) ==
    CASE left = "untouched" -> file
      [] left = "written"   -> [type |-> whole, gen |-> "tool"]
      [] OTHER              -> [type |-> left, gen |-> "tool"]

\* tls.createSecureContext, called by https.createServer: it throws on PEM
\* that is not of the expected kind and on a certificate that does not
\* belong to the key; an option left undefined is not looked at.
TlsMaterialOk(key, cert) ==
    /\ key.type \in {"key", "unread"}
    /\ cert.type \in {"cert", "unread"}
    /\ (key.type = "key" /\ cert.type = "cert") => key.gen = cert.gen

ServerInit ==
    /\ variant \in {"server.js", "https-server.js"}
    /\ pc = IF HasBootstrap(variant) THEN "bootstrap" ELSE "readOptions"
    /\ keyFile \in StartKeys
    /\ certFile \in StartCerts
    /\ startedBare = (keyFile = AbsentFile /\ certFile = AbsentFile)
    /\ toolResult = ToolNotRun
    /\ bootPath = "none"
    /\ keyPair = NoPair
    /\ optKey = Unread
    /\ optCert = Unread
    /\ httpPort = 0
    /\ httpsPort = 0
    /\ fs \in FsStates
    /\ inflight = EmptyBag
    /\ last = NoExchange
    /\ everAccepted = FALSE

\* The process dies of an uncaught exception.
Crash == pc' = "crashed"

(***************************************************************************)
(* https-server.js: the certificate bootstrap.                             *)
(***************************************************************************)
\* Mutant of BootstrapTool: the fallback is entered whatever the tool did.
BootstrapToolAlwaysFallback(outcome) ==
    /\ pc = "bootstrap"
    /\ keyFile' = AfterTool(keyFile, outcome.key, "key")
    /\ certFile' = AfterTool(certFile, outcome.cert, "cert")
    /\ toolResult' = outcome
    /\ bootPath' = IF outcome.exit = "returned" THEN "tool" ELSE bootPath
    /\ pc' = "fallbackGenerate"
    /\ UNCHANGED <<variant, startedBare, keyPair, optKey, optCert, httpPort,
                   httpsPort, fs, inflight, last, everAccepted>>
    /\ UNCHANGED clientVars

\* try { execSync('openssl req -x509 -newkey ... -keyout key.pem -out cert.pem') }
\* When execSync returns the script prints its message and goes on to read
\* the files; when it throws the catch block runs.
BootstrapTool(outcome) ==
    /\ pc = "bootstrap"
    /\ keyFile' = AfterTool(keyFile, outcome.key, "key")
    /\ certFile' = AfterTool(certFile, outcome.cert, "cert")
    /\ toolResult' = outcome
    /\ bootPath' = IF outcome.exit = "returned" THEN "tool" ELSE bootPath
    /\ pc' = IF outcome.exit = "returned" THEN "readOptions"
             ELSE "fallbackGenerate"
    /\ UNCHANGED <<variant, startedBare, keyPair, optKey, optCert, httpPort,
                   httpsPort, fs, inflight, last, everAccepted>>
    /\ UNCHANGED clientVars

\* Mutant of FallbackGenerate: a failed key generation is swallowed and the
\* script goes on to read whatever files are there.
FallbackGenerateSwallowed(ok) ==
    /\ pc = "fallbackGenerate"
    /\ IF ok
       THEN /\ keyPair' = [privateKey |-> [type |-> "key", gen |-> "fallback"],
                           publicKey |-> [type |-> "pubkey", gen |-> "fallback"]]
            /\ pc' = "writeKey"
            /\ UNCHANGED bootPath
       ELSE /\ pc' = "readOptions"
            /\ bootPath' = "failed"
            /\ UNCHANGED keyPair
    /\ UNCHANGED <<variant, toolResult, keyFile, certFile, startedBare, optKey,
                   optCert, httpPort, httpsPort, fs, inflight, last,
                   everAccepted>>
    /\ UNCHANGED clientVars

\* catch: const key = crypto.generateKeyPairSync('rsa', {...})
FallbackGenerate(ok) ==
    /\ pc = "fallbackGenerate"
    /\ IF ok
       THEN /\ keyPair' = [privateKey |-> [type |-> "key", gen |-> "fallback"],
                           publicKey |-> [type |-> "pubkey", gen |-> "fallback"]]
            /\ pc' = "writeKey"
            /\ UNCHANGED bootPath
       ELSE /\ Crash
            /\ bootPath' = "failed"
            /\ UNCHANGED keyPair
    /\ UNCHANGED <<variant, toolResult, keyFile, certFile, startedBare,
                   optKey, optCert, httpPort, httpsPort, fs, inflight, last,
                   everAccepted>>
    /\ UNCHANGED clientVars

\* What a failed fs.writeFileSync leaves of the file.  The file is opened
\* with O_CREAT and O_TRUNC: a call that fails at the open leaves the file
\* as it was; one that fails after it (ENOSPC, EFBIG) leaves a file of 0
\* bytes or the part written so far.
AfterFailedWrite(file) ==
    {file, [type |-> "empty", gen |-> "fallback"],
     [type |-> "partial", gen |-> "fallback"]}

\* fs.writeFileSync('key.pem', key.privateKey)
FallbackWriteKey(ok) ==
    /\ pc = "writeKey"
    /\ IF ok
       THEN /\ keyFile' = keyPair.privateKey
            /\ pc' = "writeCert"
            /\ UNCHANGED bootPath
       ELSE /\ Crash
            /\ bootPath' = "failed"
            /\ keyFile' \in AfterFailedWrite(keyFile)
    /\ UNCHANGED <<variant, toolResult, certFile, startedBare, keyPair,
                   optKey, optCert, httpPort, httpsPort, fs, inflight, last,
                   everAccepted>>
    /\ UNCHANGED clientVars

\* fs.writeFileSync('cert.pem', key.publicKey)
FallbackWriteCert(ok) ==
    /\ pc = "writeCert"
    /\ IF ok
       THEN /\ certFile' = keyPair.publicKey
            /\ pc' = "readOptions"
            /\ bootPath' = "fallback"
       ELSE /\ Crash
            /\ bootPath' = "failed"
            /\ certFile' \in AfterFailedWrite(certFile)
    /\ UNCHANGED <<variant, toolResult, keyFile, startedBare, keyPair,
                   optKey, optCert, httpPort, httpsPort, fs, inflight, last,
                   everAccepted>>
    /\ UNCHANGED clientVars

(***************************************************************************)
(* Both programs: the options, the server, the listeners.                  *)
(***************************************************************************)
\* Mutant of ReadOptions: a failed read leaves the option undefined.
ReadOptionsLenient ==
    /\ pc = "readOptions"
    /\ optKey' = IF keyFile = AbsentFile THEN optKey ELSE keyFile
    /\ optCert' = IF certFile = AbsentFile THEN optCert ELSE certFile
    /\ pc' = "createServer"
    /\ UNCHANGED <<variant, toolResult, keyFile, certFile, startedBare,
                   bootPath, keyPair, httpPort, httpsPort, fs, inflight, last,
                   everAccepted>>
    /\ UNCHANGED clientVars

\* { key: fs.readFileSync('key.pem'), cert: fs.readFileSync('cert.pem') }
ReadOptions ==
    /\ pc = "readOptions"
    /\ IF keyFile = AbsentFile \/ certFile = AbsentFile
       THEN /\ Crash
            /\ optKey' = IF keyFile = AbsentFile THEN optKey ELSE keyFile
            /\ UNCHANGED optCert
       ELSE /\ optKey' = keyFile
            /\ optCert' = certFile
            /\ pc' = "createServer"
    /\ UNCHANGED <<variant, toolResult, keyFile, certFile, startedBare,
                   bootPath, keyPair, httpPort, httpsPort, fs, inflight,
                   last, everAccepted>>
    /\ UNCHANGED clientVars

\* https.createServer(options, handler)
CreateServer ==
    /\ pc = "createServer"
    /\ IF TlsMaterialOk(optKey, optCert) THEN pc' = "listen" ELSE Crash
    /\ UNCHANGED <<variant, toolResult, keyFile, certFile, startedBare,
                   bootPath, keyPair, optKey, optCert, httpPort, httpsPort,
                   fs, inflight, last, everAccepted>>
    /\ UNCHANGED clientVars

\* server.js: httpServer.listen(8000); httpsServer.listen(8001)
\* https-server.js: server.listen(3000)
\* The script makes its listen calls in one go.  Where a port cannot be
\* bound (EADDRINUSE) the server emits 'error', which no one handles: the
\* process dies before it accepts a connection.
Listen(ok) ==
    /\ pc = "listen"
    /\ IF ok
       THEN /\ httpPort' = IF variant = "server.js" THEN HttpListenPort ELSE 0
            /\ httpsPort' = IF variant = "server.js" THEN HttpsListenPort
                            ELSE HttpsOnlyListenPort
            /\ pc' = "listening"
       ELSE /\ Crash
            /\ UNCHANGED <<httpPort, httpsPort>>
    /\ UNCHANGED <<variant, toolResult, keyFile, certFile, startedBare,
                   bootPath, keyPair, optKey, optCert, fs, inflight, last,
                   everAccepted>>
    /\ UNCHANGED clientVars

(***************************************************************************)
(* Requests.                                                               *)
(***************************************************************************)
\* server.js: a request on the plaintext listener is answered at once.
HttpRequest(url) ==
    /\ pc = "listening"
    /\ httpPort # 0
    /\ last' = [listener |-> "http", url |-> url, filePath |-> <<>>,
                result |-> ReadError("none"), response |-> Redirect(url)]
    /\ everAccepted' = TRUE
    /\ UNCHANGED <<variant, toolResult, pc, keyFile, certFile, startedBare,
                   bootPath, keyPair, optKey, optCert, httpPort, httpsPort,
                   fs, inflight>>
    /\ UNCHANGED clientVars

\* The result of a read that the thread pool has not made yet.
NotRead == [err |-> "pending", data |-> ""]

\* An fs.readFile in progress: the values the callback closes over and what
\* the read has found, once it has been made.
Reading(request) ==
    [url |-> request.url, filePath |-> request.filePath,
     contentType |-> request.contentType, result |-> NotRead]

\* A request on the HTTPS listener: the handler runs up to fs.readFile, which
\* hands the read to the thread pool and returns.
HttpsRequest(url) ==
    /\ pc = "listening"
    /\ httpsPort # 0
    /\ BagCardinality(inflight) < MaxInFlight
    /\ inflight' = inflight (+) SetToBag({Reading(Requests[<<variant, url>>])})
    /\ everAccepted' = TRUE
    /\ UNCHANGED <<variant, toolResult, pc, keyFile, certFile, startedBare,
                   bootPath, keyPair, optKey, optCert, httpPort, httpsPort,
                   fs, last>>
    /\ UNCHANGED clientVars

\* The thread pool makes the read of fs.readFile: it opens the file and
\* reads what is in it.  The result is that of the directory as it is now;
\* the callback gets it later, after whatever other handlers, callbacks and
\* changes of the directory come in between.
ReadFileRead(req) ==
    /\ pc = "listening"
    /\ BagIn(req, inflight)
    /\ req.result = NotRead
    /\ inflight' = (inflight (-) SetToBag({req})) (+)
                       SetToBag({[req EXCEPT !.result = Reads[<<fs, req.filePath>>]]})
    /\ UNCHANGED <<variant, toolResult, pc, keyFile, certFile, startedBare,
                   bootPath, keyPair, optKey, optCert, httpPort, httpsPort,
                   fs, last, everAccepted>>
    /\ UNCHANGED clientVars

\* Mutant of ReadFileDone: the content type is a variable shared by the
\* requests, so a response carries that of any request still being read.
ReadFileDoneSharedType(req) ==
    /\ pc = "listening"
    /\ BagIn(req, inflight)
    /\ req.result # NotRead
    /\ \E other \in BagToSet(inflight) :
           last' = [listener |-> "https", url |-> req.url,
                    filePath |-> req.filePath, result |-> req.result,
                    response |-> RespondOf(variant, other.contentType,
                                           req.result)]
    /\ inflight' = inflight (-) SetToBag({req})
    /\ UNCHANGED <<variant, toolResult, pc, keyFile, certFile, startedBare,
                   bootPath, keyPair, optKey, optCert, httpPort, httpsPort,
                   fs, everAccepted>>
    /\ UNCHANGED clientVars

\* Mutant of ReadFileDone: a read error other than ENOENT is thrown.
ReadFileDoneThrows(req) ==
    /\ pc = "listening"
    /\ BagIn(req, inflight)
    /\ req.result # NotRead
    /\ IF req.result.err \in {"none", "ENOENT"}
       THEN /\ last' = [listener |-> "https", url |-> req.url,
                        filePath |-> req.filePath, result |-> req.result,
                        response |-> RespondOf(variant, req.contentType,
                                               req.result)]
            /\ UNCHANGED pc
       ELSE /\ Crash
            /\ UNCHANGED last
    /\ inflight' = inflight (-) SetToBag({req})
    /\ UNCHANGED <<variant, toolResult, keyFile, certFile, startedBare,
                   bootPath, keyPair, optKey, optCert, httpPort, httpsPort, fs,
                   everAccepted>>
    /\ UNCHANGED clientVars

\* fs.readFile calls back with what the read has found: the handler writes
\* the response and ends it.
ReadFileDone(req) ==
    /\ pc = "listening"
    /\ BagIn(req, inflight)
    /\ req.result # NotRead
    /\ last' = [listener |-> "https", url |-> req.url,
                filePath |-> req.filePath, result |-> req.result,
                response |-> RespondOf(variant, req.contentType, req.result)]
    /\ inflight' = inflight (-) SetToBag({req})
    /\ UNCHANGED <<variant, toolResult, pc, keyFile, certFile, startedBare,
                   bootPath, keyPair, optKey, optCert, httpPort, httpsPort,
                   fs, everAccepted>>
    /\ UNCHANGED clientVars

\* Another process creates, replaces or removes a file of the served
\* directory, or changes what it is: always the entry as a whole (rename,
\* unlink, chmod), never the bytes of a file in place.
FsChange(name, entry) ==
    /\ entry # fs[name]
    /\ fs' = [fs EXCEPT ![name] = entry]
    /\ UNCHANGED <<variant, toolResult, pc, keyFile, certFile, startedBare,
                   bootPath, keyPair, optKey, optCert, httpPort, httpsPort,
                   inflight, last, everAccepted>>
    /\ UNCHANGED clientVars

Next ==
    \/ \E outcome \in ToolOutcomes : BootstrapTool(outcome)
    \/ \E ok \in BOOLEAN : FallbackGenerate(ok)
    \/ \E ok \in BOOLEAN : FallbackWriteKey(ok)
    \/ \E ok \in BOOLEAN : FallbackWriteCert(ok)
    \/ ReadOptions
    \/ CreateServer
    \/ \E ok \in BOOLEAN : Listen(ok)
    \/ \E url \in Urls : HttpRequest(url)
    \/ \E url \in Urls : HttpsRequest(url)
    \/ \E req \in BagToSet(inflight) : ReadFileRead(req)
    \/ \E req \in BagToSet(inflight) : ReadFileDone(req)
    \/ \E name \in Names : \E entry \in Entries(name) : FsChange(name, entry)

(***************************************************************************)
(* The browser client, src/app.js.  Each action is one run of the event    *)
(* loop: an event handler or the continuation of an await, up to the next  *)
(* await that has to wait for the browser or for the SDK.                  *)
(***************************************************************************)
MsgHttps == "This app requires HTTPS to access the camera. Please use a secure connection."
MsgSdk == "WebAR SDK not loaded. Please check your internet connection."
MsgStart == "Failed to start AR experience. Please check camera permissions."
MsgCamera == "Camera access is required for this AR experience. Please allow camera access and refresh the page."

\* The environments a page is loaded in.  sdk: WEBARSDK is "undefined",
\* defined without an init function ("noInit"), or "ok".
Environments ==
    [isSecureContext : BOOLEAN,
     protocol : {"https:", "http:"},
     hostname : {"localhost", "192.168.199.57"},
     sdk : {"undefined", "noInit", "ok"},
     mediaDevices : BOOLEAN]

\* Mutant of IsSecureContext: every context passes.
IsSecureContextAlways(e) == TRUE

\* isSecureContext()
IsSecureContext(e) ==
    \/ e.isSecureContext
    \/ e.protocol = "https:"
    \/ e.hostname = "localhost"

\* The constructor's field values.
NewApp ==
    [isInitialized |-> FALSE, isCameraAllowed |-> FALSE, arScene |-> FALSE,
     videoElement |-> 0, videoTexture |-> 0, videoPlane |-> 0]

\* The overlays as index.html gives them: only the loading overlay shown.
NewDom ==
    [promptShown |-> FALSE, errorShown |-> FALSE, errorText |-> "",
     overlayHidden |-> FALSE]

\* No render callback has run.
NoFrame == [ran |-> FALSE, textureUpdated |-> FALSE, rendered |-> FALSE]

NoSdkCalls == [init |-> 0, textures |-> 0, planes |-> 0, renderLoops |-> 0]

ClientInit ==
    /\ env \in Environments
    /\ loaded = FALSE
    /\ app = NewApp
    /\ dom = NewDom
    /\ videos = <<>>
    /\ hidden = FALSE
    /\ listeners = FALSE
    /\ tasks = <<>>
    /\ sdkCalls = NoSdkCalls
    /\ frame = NoFrame
    /\ checkPassed = FALSE
    /\ clicks = 0
    /\ cameraRequests = 0

\* Mutant of ShowErrorDom: the error element is not shown.
ShowErrorDomSilent(d, message) == [d EXCEPT !.overlayHidden = TRUE]

\* showError(message), with the hideLoadingOverlay() it ends in: the
\* document and the app fields after it.
ShowErrorDom(d, message) ==
    [d EXCEPT !.errorText = message, !.errorShown = TRUE,
              !.overlayHidden = TRUE]

ShowErrorApp(a) == [a EXCEPT !.isInitialized = TRUE]

\* A call of requestCameraPermission that waits for getUserMedia.
NewTask ==
    [pc |-> "getUserMedia", el |-> 0, play |-> "none", playEl |-> 0,
     batch |-> 0]

\* DOMContentLoaded: new WebARVideoApp(), whose constructor runs init() up to
\* its first await; isCameraAllowed is false there, so startARExperience
\* shows the permission prompt and returns.
Construct ==
    /\ ~loaded
    /\ loaded' = TRUE
    /\ IF ~IsSecureContext(env)
       THEN /\ dom' = ShowErrorDom(dom, MsgHttps)
            /\ app' = ShowErrorApp(app)
            /\ UNCHANGED <<listeners, checkPassed>>
       ELSE /\ checkPassed' = TRUE
            /\ IF env.sdk = "undefined"
               THEN /\ dom' = ShowErrorDom(dom, MsgSdk)
                    /\ app' = ShowErrorApp(app)
                    /\ UNCHANGED listeners
               ELSE /\ listeners' = TRUE
                    /\ dom' = [dom EXCEPT !.promptShown = TRUE]
                    /\ UNCHANGED app
    /\ UNCHANGED <<env, videos, hidden, tasks, sdkCalls, frame, clicks,
                   cameraRequests>>
    /\ UNCHANGED serverVars

\* The user clicks the allow-camera button.  With the listener installed
\* this runs requestCameraPermission() up to await getUserMedia(...);
\* without navigator.mediaDevices the call throws and the catch shows the
\* camera error.
Click ==
    /\ clicks < MaxClicks
    /\ clicks' = clicks + 1
    /\ IF ~listeners
       THEN UNCHANGED <<app, dom, tasks, cameraRequests>>
       ELSE IF ~env.mediaDevices
            THEN /\ dom' = ShowErrorDom(dom, MsgCamera)
                 /\ app' = ShowErrorApp(app)
                 /\ UNCHANGED <<tasks, cameraRequests>>
            ELSE /\ cameraRequests' = cameraRequests + 1
                 /\ tasks' = Append(tasks, NewTask)
                 /\ UNCHANGED <<app, dom>>
    /\ UNCHANGED <<env, loaded, videos, hidden, listeners, sdkCalls, frame,
                   checkPassed>>
    /\ UNCHANGED serverVars

\* getUserMedia resolves: permission granted.  startARExperience() runs
\* into initializeWebARSDK(), which throws without WEBARSDK.init and
\* otherwise awaits WEBARSDK.init(...).
CameraGranted(t) ==
    /\ tasks[t].pc = "getUserMedia"
    /\ IF env.sdk # "ok"
       THEN /\ app' = ShowErrorApp([app EXCEPT !.isCameraAllowed = TRUE])
            /\ dom' = ShowErrorDom([dom EXCEPT !.promptShown = FALSE], MsgStart)
            /\ tasks' = [tasks EXCEPT ![t].pc = "failed"]
            /\ UNCHANGED sdkCalls
       ELSE /\ app' = [app EXCEPT !.isCameraAllowed = TRUE]
            /\ dom' = [dom EXCEPT !.promptShown = FALSE]
            /\ sdkCalls' = [sdkCalls EXCEPT !.init = @ + 1]
            /\ tasks' = [tasks EXCEPT ![t].pc = "sdkInit"]
    /\ UNCHANGED <<env, loaded, videos, hidden, listeners, frame, checkPassed,
                   clicks, cameraRequests>>
    /\ UNCHANGED serverVars

\* Mutant of CameraDenied: the catch asks for the camera again.
CameraDeniedRetries(t) ==
    /\ tasks[t].pc = "getUserMedia"
    /\ dom' = ShowErrorDom(dom, MsgCamera)
    /\ app' = ShowErrorApp(app)
    /\ tasks' = Append([tasks EXCEPT ![t].pc = "denied"], NewTask)
    /\ cameraRequests' = cameraRequests + 1
    /\ UNCHANGED <<env, loaded, videos, hidden, listeners, sdkCalls, frame,
                   checkPassed, clicks>>
    /\ UNCHANGED serverVars

\* getUserMedia rejects: permission denied (or no camera).
CameraDenied(t) ==
    /\ tasks[t].pc = "getUserMedia"
    /\ dom' = ShowErrorDom(dom, MsgCamera)
    /\ app' = ShowErrorApp(app)
    /\ tasks' = [tasks EXCEPT ![t].pc = "denied"]
    /\ UNCHANGED <<env, loaded, videos, hidden, listeners, sdkCalls, frame,
                   checkPassed, clicks, cameraRequests>>
    /\ UNCHANGED serverVars

\* The element setupVideo() creates and configures: loop, muted and
\* playsInline set; paused, without metadata and without an error, as every
\* new element.
NewVideo ==
    [paused |-> TRUE, muted |-> TRUE, loop |-> TRUE, playsInline |-> TRUE,
     loaded |-> FALSE, error |-> FALSE]

\* WEBARSDK.init settles.  Resolved: arScene = getScene(), then setupVideo()
\* creates a video element (paused, as every new element), appends it to
\* the document and waits for it in waitForVideoReady().  Rejected: the
\* error reaches startARExperience's catch.
SdkInitSettled(t, ok) ==
    /\ tasks[t].pc = "sdkInit"
    /\ IF ok
       THEN /\ app' = [app EXCEPT !.arScene = TRUE,
                                  !.videoElement = Len(videos) + 1]
            /\ videos' = Append(videos, NewVideo)
            /\ tasks' = [tasks EXCEPT ![t].pc = "videoWait",
                                      ![t].el = Len(videos) + 1]
            /\ UNCHANGED dom
       ELSE /\ app' = ShowErrorApp(app)
            /\ dom' = ShowErrorDom(dom, MsgStart)
            /\ tasks' = [tasks EXCEPT ![t].pc = "failed"]
            /\ UNCHANGED videos
    /\ UNCHANGED <<env, loaded, hidden, listeners, sdkCalls, frame,
                   checkPassed, clicks, cameraRequests>>
    /\ UNCHANGED serverVars

\* element.play() is taken up where the browser allows playback and the
\* element has not failed to load; otherwise it returns a rejected promise.
PlayAccepted(vs, el, allowed) == allowed /\ ~vs[el].error

\* element.play(): where it is taken up the element stops being paused at
\* once and the promise waits for playback to start; otherwise the element
\* stays as it is.
Played(vs, el, allowed) ==
    IF PlayAccepted(vs, el, allowed) THEN [vs EXCEPT ![el].paused = FALSE]
    ELSE vs

\* The element the call waits for fires loadedmetadata:
\* createVideoTexture(this.videoElement), then createARScene():
\* createVideoPlane, arScene.add, startVideoPlayback() up
\* to its await of play(), startRenderLoop() with its first run of render,
\* and at last hideLoadingOverlay().  Where play() returned a rejected
\* promise, the catch of startVideoPlayback runs before the task ends and
\* sets the 1 s retry timer.
VideoReady(t, allowed) ==
    /\ tasks[t].pc = "videoWait"
    /\ app' = [app EXCEPT !.videoTexture = app.videoElement,
                          !.videoPlane = app.videoElement,
                          !.isInitialized = TRUE]
    /\ videos' = Played([videos EXCEPT ![tasks[t].el].loaded = TRUE],
                        app.videoElement, allowed)
    /\ dom' = [dom EXCEPT !.overlayHidden = TRUE]
    /\ sdkCalls' = [sdkCalls EXCEPT !.textures = @ + 1, !.planes = @ + 1,
                                    !.renderLoops = @ + 1]
    /\ frame' = [ran |-> TRUE,
                 textureUpdated |-> app.arScene /\ app.isInitialized,
                 rendered |-> app.arScene /\ app.isInitialized]
    /\ tasks' = [tasks EXCEPT ![t].pc = "started",
                              ![t].play =
                                  IF PlayAccepted(videos, app.videoElement,
                                                  allowed)
                                  THEN "pending" ELSE "retryWait",
                              ![t].playEl = app.videoElement]
    /\ UNCHANGED <<env, loaded, hidden, listeners, checkPassed, clicks,
                   cameraRequests>>
    /\ UNCHANGED serverVars

\* An element fails to load: with its error event the browser rejects every
\* play() promise pending on it, and the catch of each call that awaits one
\* runs before the task ends and sets its 1 s retry timer.
LoadFailureRejects(ts, el) ==
    [t \in DOMAIN ts |->
        IF ts[t].play = "pending" /\ ts[t].playEl = el
        THEN [ts[t] EXCEPT !.play = "retryWait"] ELSE ts[t]]

\* The wait of waitForVideoReady() ends in a rejection: the awaited element
\* fires error, or the 10 s timer fires first and leaves the element
\* loading.
VideoFailed(t, cause) ==
    /\ tasks[t].pc = "videoWait"
    /\ app' = ShowErrorApp(app)
    /\ dom' = ShowErrorDom(dom, MsgStart)
    /\ IF cause = "error"
       THEN /\ videos' = [videos EXCEPT ![tasks[t].el].error = TRUE]
            /\ tasks' = [LoadFailureRejects(tasks, tasks[t].el)
                             EXCEPT ![t].pc = "failed"]
       ELSE /\ tasks' = [tasks EXCEPT ![t].pc = "failed"]
            /\ UNCHANGED videos
    /\ UNCHANGED <<env, loaded, hidden, listeners, sdkCalls, frame,
                   checkPassed, clicks, cameraRequests>>
    /\ UNCHANGED serverVars

\* An element whose wait has timed out fires loadedmetadata or error after
\* all.  The listeners of waitForVideoReady() run, and their clearTimeout,
\* resolve and reject do nothing to a promise already rejected.
LateVideoEvent(el, ok) ==
    /\ el \in DOMAIN videos
    /\ ~videos[el].loaded
    /\ ~videos[el].error
    /\ \A t \in DOMAIN tasks : ~(tasks[t].pc = "videoWait" /\ tasks[t].el = el)
    /\ IF ok
       THEN /\ videos' = [videos EXCEPT ![el].loaded = TRUE]
            /\ UNCHANGED tasks
       ELSE /\ videos' = [videos EXCEPT ![el].error = TRUE]
            /\ tasks' = LoadFailureRejects(tasks, el)
    /\ UNCHANGED <<env, loaded, app, dom, hidden, listeners, sdkCalls, frame,
                   checkPassed, clicks, cameraRequests>>
    /\ UNCHANGED serverVars

\* The calls of startVideoPlayback whose play() promise on element el is in
\* state st.
Awaiting(ts, el, st) ==
    {t \in DOMAIN ts : ts[t].playEl = el /\ ts[t].play = st}

\* The browser settles play() promises of element el, in one task all those
\* it took from the element together.  Resolved: playback has started, and
\* every promise pending on the element resolves.  Rejected: the promises a
\* pause() took from the element, those of the earliest pause first, reach
\* the catch of their calls, each of which sets its 1 s retry timer; what
\* the element does after the pause does not bring a promise back.
PlaySettled(el, resolved) ==
    /\ el \in DOMAIN videos
    /\ IF resolved
       THEN /\ Awaiting(tasks, el, "pending") # {}
            /\ tasks' = [t \in DOMAIN tasks |->
                             IF t \in Awaiting(tasks, el, "pending")
                             THEN [tasks[t] EXCEPT !.play = "settled"]
                             ELSE tasks[t]]
       ELSE /\ Awaiting(tasks, el, "rejected") # {}
            /\ LET first == CHOOSE b \in {tasks[t].batch :
                                     t \in Awaiting(tasks, el, "rejected")} :
                                 \A t \in Awaiting(tasks, el, "rejected") :
                                     b <= tasks[t].batch
               IN  tasks' = [t \in DOMAIN tasks |->
                                IF /\ t \in Awaiting(tasks, el, "rejected")
                                   /\ tasks[t].batch = first
                                THEN [tasks[t] EXCEPT !.play = "retryWait",
                                                      !.batch = 0]
                                ELSE tasks[t]]
    /\ UNCHANGED <<env, loaded, app, dom, videos, hidden, listeners, sdkCalls,
                   frame, checkPassed, clicks, cameraRequests>>
    /\ UNCHANGED serverVars

\* The retry timer fires: this.videoElement.play().catch(console.error).
RetryPlay(t, allowed) ==
    /\ tasks[t].play = "retryWait"
    /\ videos' = Played(videos, app.videoElement, allowed)
    /\ tasks' = [tasks EXCEPT ![t].play = "settled"]
    /\ UNCHANGED <<env, loaded, app, dom, hidden, listeners, sdkCalls, frame,
                   checkPassed, clicks, cameraRequests>>
    /\ UNCHANGED serverVars

\* element.pause() on an element that is not paused takes every play()
\* promise still pending on the element and queues a task that rejects them
\* (AbortError): they are rejected from here on, as one batch, after the
\* batches of earlier pauses.
PauseRejects(ts, el) ==
    LET batch == Max0({ts[t].batch : t \in Awaiting(ts, el, "rejected")}) + 1
    IN  [t \in DOMAIN ts |->
            IF t \in Awaiting(ts, el, "pending")
            THEN [ts[t] EXCEPT !.play = "rejected", !.batch = batch]
            ELSE ts[t]]

\* visibilitychange: the document becomes hidden or visible.  The listener
\* calls pauseVideo() or resumeVideo(), which act on this.videoElement.
VisibilityChange(allowed) ==
    /\ hidden' = ~hidden
    /\ IF listeners /\ app.videoElement # 0
       THEN IF ~hidden
            THEN IF ~videos[app.videoElement].paused
                 THEN /\ videos' = [videos EXCEPT
                                       ![app.videoElement].paused = TRUE]
                      /\ tasks' = PauseRejects(tasks, app.videoElement)
                 ELSE UNCHANGED <<videos, tasks>>
            ELSE /\ IF videos[app.videoElement].paused
                    THEN videos' = Played(videos, app.videoElement, allowed)
                    ELSE UNCHANGED videos
                 /\ UNCHANGED tasks
       ELSE UNCHANGED <<videos, tasks>>
    /\ UNCHANGED <<env, loaded, app, dom, listeners, sdkCalls, frame,
                   checkPassed, clicks, cameraRequests>>
    /\ UNCHANGED serverVars

\* Mutant of Frame: the callback renders without updating the texture.
FrameNoTextureUpdate(loop) ==
    /\ loop \in 1..sdkCalls.renderLoops
    /\ frame' = [ran |-> TRUE,
                 textureUpdated |-> FALSE,
                 rendered |-> app.arScene /\ app.isInitialized]
    /\ UNCHANGED <<env, loaded, app, dom, videos, hidden, listeners, tasks,
                   sdkCalls, checkPassed, clicks, cameraRequests>>
    /\ UNCHANGED serverVars

\* An animation frame: the render callback of one render loop runs and
\* requests the next frame.
Frame(loop) ==
    /\ loop \in 1..sdkCalls.renderLoops
    /\ frame' = [ran |-> TRUE,
                 textureUpdated |-> app.arScene /\ app.isInitialized
                                        /\ app.videoTexture # 0,
                 rendered |-> app.arScene /\ app.isInitialized]
    /\ UNCHANGED <<env, loaded, app, dom, videos, hidden, listeners, tasks,
                   sdkCalls, checkPassed, clicks, cameraRequests>>
    /\ UNCHANGED serverVars

NextClient ==
    \/ Construct
    \/ Click
    \/ \E t \in DOMAIN tasks : CameraGranted(t)
    \/ \E t \in DOMAIN tasks : CameraDenied(t)
    \/ \E t \in DOMAIN tasks : \E ok \in BOOLEAN : SdkInitSettled(t, ok)
    \/ \E t \in DOMAIN tasks : \E allowed \in BOOLEAN : VideoReady(t, allowed)
    \/ \E t \in DOMAIN tasks : \E cause \in {"error", "timeout"} :
           VideoFailed(t, cause)
    \/ \E el \in DOMAIN videos : \E ok \in BOOLEAN : LateVideoEvent(el, ok)
    \/ \E el \in DOMAIN videos : \E resolved \in BOOLEAN :
           PlaySettled(el, resolved)
    \/ \E t \in DOMAIN tasks : \E allowed \in BOOLEAN : RetryPlay(t, allowed)
    \/ \E allowed \in BOOLEAN : VisibilityChange(allowed)
    \/ \E loop \in 1..MaxClicks : Frame(loop)

(***************************************************************************)
(* The specifications.  Spec is a run of one of the two server programs;   *)
(* ClientSpec is a page load of the client.  Each leaves the other part    *)
(* at rest.                                                                *)
(***************************************************************************)
ServerAtRest ==
    /\ variant = "none"
    /\ pc = "off"
    /\ keyFile = AbsentFile
    /\ certFile = AbsentFile
    /\ startedBare = FALSE
    /\ toolResult = ToolNotRun
    /\ bootPath = "none"
    /\ keyPair = NoPair
    /\ optKey = Unread
    /\ optCert = Unread
    /\ httpPort = 0
    /\ httpsPort = 0
    /\ fs = [n \in Names |-> "absent"]
    /\ inflight = EmptyBag
    /\ last = NoExchange
    /\ everAccepted = FALSE

ClientAtRest ==
    /\ env = [isSecureContext |-> FALSE, protocol |-> "http:",
              hostname |-> "localhost", sdk |-> "undefined",
              mediaDevices |-> FALSE]
    /\ loaded = FALSE
    /\ app = NewApp
    /\ dom = NewDom
    /\ videos = <<>>
    /\ hidden = FALSE
    /\ listeners = FALSE
    /\ tasks = <<>>
    /\ sdkCalls = NoSdkCalls
    /\ frame = NoFrame
    /\ checkPassed = FALSE
    /\ clicks = 0
    /\ cameraRequests = 0

Init == ServerInit /\ ClientAtRest

Spec == Init /\ [][Next]_vars

InitClient == ClientInit /\ ServerAtRest

ClientSpec == InitClient /\ [][NextClient]_vars

(***************************************************************************)
(* Properties of the servers.                                              *)
(***************************************************************************)
\* path ends with the characters of ext, compared without regard to case.
EndsWithCI(path, ext) ==
    /\ Len(path) >= Len(ext)
    /\ ToLowerCase(SubSeq(path, Len(path) - Len(ext) + 1, Len(path))) = ext

\* The extensions of the table each resolved path of the model ends with,
\* and the pairs of resolved paths that differ at most in the case of the
\* extension, tabulated.
TableExtensions ==
    Tabulated([p \in FilePaths |->
                  {ext \in DOMAIN MimeTypes : EndsWithCI(p, ext)}])

\* The latest exchange is one of the HTTPS handler.
Answered == last.listener = "https"

\* C1: when the read of an HTTPS request finds a readable regular file, the
\* response is 200, its body is the data read, and its Content-Type is the
\* table's entry for the extension of the resolved path (both programs).
C1_ExistingFileServed ==
    (Answered /\ last.result.err = "none") =>
        /\ last.response.status = 200
        /\ last.response.body = <<last.result.data>>
        /\ \A ext \in TableExtensions[last.filePath] :
               last.response.ctype = MimeTypes[ext]

\* C1 witness: https-server.js has served /app.JS as text/javascript.
C1_Witness ==
    /\ variant = "https-server.js"
    /\ Answered
    /\ last.url = ScriptUrl
    /\ last.result = [err |-> "none", data |-> "v1"]
    /\ last.response.status = 200
    /\ last.response.ctype = "text/javascript"

\* C2: the plaintext listener answers 301 with a Location whose host and port
\* are those the HTTPS listener is bound to, and not its own, and whose path
\* is the request's.
C2_RedirectReachesHttps ==
    (last.listener = "http") =>
        /\ last.response.status = 301
        /\ last.response.location.scheme = "https"
        /\ last.response.location.host = "localhost"
        /\ last.response.location.port = httpsPort
        /\ last.response.location.port # httpPort
        /\ last.response.location.path = last.url

\* C3 as claimed: a program started with neither key.pem nor cert.pem never
\* binds a listener and never accepts a connection (both programs).
C3_BareStartNeverListens ==
    startedBare => (httpPort = 0 /\ httpsPort = 0 /\ ~everAccepted)

\* C3 amended: server.js started with neither file dies reading its options,
\* with no listener bound and no connection accepted; https-server.js
\* started with neither file listens only with material generated in this
\* run.
C3_BareStartFatalWithoutBootstrap ==
    startedBare =>
        /\ (variant = "server.js") =>
               /\ pc \in {"readOptions", "crashed"}
               /\ httpPort = 0 /\ httpsPort = 0 /\ ~everAccepted
        /\ (variant = "https-server.js" /\ httpsPort # 0) =>
               /\ optKey.gen \in {"tool", "fallback"}
               /\ optCert.gen \in {"tool", "fallback"}

\* C3 witness: server.js, started with neither file, has died.
C3_Witness ==
    variant = "server.js" /\ startedBare /\ pc = "crashed"

\* C4: once the bootstrap of https-server.js has completed, by the tool or by
\* the fallback, key.pem and cert.pem both exist, are non-empty and were
\* written by the one generation pass that completed.
C4_BootstrapWritesOnePair ==
    (bootPath \in {"tool", "fallback"}) =>
        /\ keyFile.type \notin {"absent", "empty"}
        /\ certFile.type \notin {"absent", "empty"}
        /\ keyFile.gen = bootPath
        /\ certFile.gen = bootPath

\* C5: https-server.js reaches listen only after a bootstrap path has
\* completed and both files have been read, and when the tool and the
\* fallback both fail the process is dead with no listener bound.
C5_ListenOnlyAfterBootstrap ==
    HasBootstrap(variant) =>
        /\ (pc \in {"listen", "listening"} \/ httpsPort # 0) =>
               /\ bootPath \in {"tool", "fallback"}
               /\ optKey.type # "unread"
               /\ optCert.type # "unread"
        /\ (bootPath = "failed") =>
               (pc = "crashed" /\ httpsPort = 0 /\ ~everAccepted)

\* C5 witness: the tool was unavailable, the fallback failed, the process is
\* dead.
C5_Witness ==
    toolResult = ToolUnavailable /\ bootPath = "failed" /\ pc = "crashed"

\* The read found nothing at the resolved path: no entry of that name
\* (ENOENT), or a path that runs through something that is no directory
\* (ENOTDIR).
NamesNoFile(result) == result.err \in {"ENOENT", "ENOTDIR"}

\* C6: a request whose resolved path names no existing file is answered 404,
\* text/html, with the body <h1>404 Not Found</h1>.
C6_MissingFileIs404 ==
    (Answered /\ NamesNoFile(last.result)) =>
        /\ last.response.status = 404
        /\ last.response.ctype = "text/html"
        /\ last.response.body = <<"<h1>404 Not Found</h1>">>

\* C7: in every state of the served directory the handler answers / as it
\* answers /index.html, and a request for / is read at ./index.html.
C7_RootIsIndex ==
    /\ Answers[<<fs, RootUrl>>] = Answers[<<fs, IndexUrl>>]
    /\ (Answered /\ last.url = RootUrl) =>
           last.filePath = <<".">> \o IndexUrl

\* C7 witness: / has been answered 404 while index.html does not exist.
C7_Witness ==
    /\ Answered
    /\ last.url = RootUrl
    /\ last.response.status = 404
    /\ fs[IndexName] = "absent"

\* The two paths differ at most in the case of the letters after the last dot.
SameButExtensionCase(p, q) ==
    /\ Len(p) = Len(q)
    /\ \E k \in 1..Len(p) :
           /\ p[k] = "."
           /\ SubSeq(p, 1, k) = SubSeq(q, 1, k)
           /\ \A i \in (k + 1)..Len(p) :
                  /\ p[i] \notin {".", "/"}
                  /\ ToLowerChar(p[i]) = ToLowerChar(q[i])

ExtensionCaseOnly ==
    Tabulated([x \in FilePaths \X FilePaths |->
                  SameButExtensionCase(x[1], x[2])])

\* C8: a 200 response for a path whose lowercased extension is not in the
\* table, a path with no extension included, carries
\* application/octet-stream, the type every request for such a path (one
\* that names a file, not ending in a slash) is given; and requests whose
\* paths differ only in the case of the extension are given the same
\* content type.
C8_UnknownExtensionAndCase ==
    /\ (Answered /\ last.response.status = 200
            /\ TableExtensions[last.filePath] = {}) =>
           last.response.ctype = "application/octet-stream"
    /\ \A req \in BagToSet(inflight) :
           (/\ TableExtensions[req.filePath] = {}
            /\ req.filePath[Len(req.filePath)] # "/") =>
               req.contentType = "application/octet-stream"
    /\ \A r1, r2 \in BagToSet(inflight) :
           ExtensionCaseOnly[<<r1.filePath, r2.filePath>>] =>
               r1.contentType = r2.contentType

\* C8 witness: /notes, a regular file with no extension, was served with
\* 200 as application/octet-stream, and /app.JS and /app.js are both being
\* read.
C8_Witness ==
    /\ Answered
    /\ last.url = NotesUrl
    /\ fs[NotesName] = "v1"
    /\ TableExtensions[last.filePath] = {}
    /\ last.response.status = 200
    /\ last.response.ctype = "application/octet-stream"
    /\ \E req \in BagToSet(inflight) : req.url = ScriptUrl
    /\ \E req \in BagToSet(inflight) : req.url = ScriptLowerUrl

\* C9: a read that fails with an error other than file-not-found is answered
\* 500 with the error code in the body, and the process goes on: once it
\* listens it listens after every step, the steps that answer 404 or 500
\* included.
C9_ReadErrorIs500AndServerLives ==
    /\ [](/\ (Answered /\ last.result.err \notin {"none", "ENOENT", "ENOTDIR"}) =>
                 /\ last.response.status = 500
                 /\ last.response.body = <<"Server Error: ", last.result.err>>
          /\ everAccepted => pc = "listening")
    /\ [][pc = "listening" => pc' = "listening"]_vars

\* C9 witness: a read has failed with EACCES and was answered 500; the
\* process listens and is reading for another request.
C9_Witness ==
    /\ Answered
    /\ last.result.err = "EACCES"
    /\ last.response.status = 500
    /\ pc = "listening"
    /\ inflight # EmptyBag

\* C12: whatever else is being read and whatever was answered before, the
\* step that makes the read of a request gives it what the request's own
\* path finds in the served directory as it is at that step, and the step
\* that completes the request answers that request, with what the handler
\* makes of the request's own path and of the result of its own read.
C12_RequestsIndependent ==
    [][\A req \in BagToSet(inflight) :
           /\ (inflight' = inflight (-) SetToBag({req})) =>
                  /\ last'.listener = "https"
                  /\ last'.url = req.url
                  /\ last'.result = req.result
                  /\ last'.response =
                         Respond(Requests[<<"https-server.js", req.url>>].contentType,
                                 req.result)
           /\ \A new \in BagToSet(inflight') :
                  (/\ new # req
                   /\ inflight' = (inflight (-) SetToBag({req}))
                                      (+) SetToBag({new})) =>
                      /\ req.result = NotRead
                      /\ new = [req EXCEPT !.result =
                                   Reads[<<fs, Requests[<<"https-server.js", req.url>>].filePath>>]]]_vars

\* C12 witness: a request was answered 404 or 500 while a request for
\* another path waits for its callback with a file that its read has found
\* and that the directory no longer serves.
C12_Witness ==
    /\ Answered
    /\ Failed(last)
    /\ \E req \in BagToSet(inflight) :
           /\ req.url # last.url
           /\ req.result.err = "none"
           /\ Reads[<<fs, req.filePath>>] # req.result

\* The catch block of the bootstrap has been entered.
FallbackEntered ==
    \/ pc \in {"fallbackGenerate", "writeKey", "writeCert"}
    \/ keyPair # NoPair
    \/ bootPath \in {"fallback", "failed"}

\* C13: the fallback is entered exactly when the invocation of the external
\* tool has failed (execSync threw), whichever way it failed and whatever
\* either outcome left on disk; after a successful invocation no key pair
\* is generated in-process, nothing the fallback writes is on disk, and no
\* step writes key.pem or cert.pem.
C13_FallbackIffToolFails ==
    /\ [](/\ FallbackEntered <=> toolResult.exit = "threw"
          /\ (toolResult.exit = "returned") =>
                 /\ keyPair = NoPair
                 /\ bootPath = "tool"
                 /\ keyFile.gen # "fallback"
                 /\ certFile.gen # "fallback")
    /\ [][(toolResult.exit = "returned") =>
              (keyFile' = keyFile /\ certFile' = certFile)]_vars

\* C13 witness: the tool succeeded and https-server.js serves requests with
\* the tool's files.
C13_Witness ==
    /\ toolResult = ToolOk
    /\ pc = "listening"
    /\ everAccepted
    /\ optKey.gen = "tool"

\* C18: every exchange completed so far wrote its status line once and
\* ended its response once; a step takes at most one request out of those
\* being read, and the step that takes one out answers it, with 200, 404 or
\* 500; a request on the plaintext listener is answered 301 in the step
\* that accepts it; and no response is written in any other step.
C18_ExactlyOneResponse ==
    /\ []((last.listener # "none") =>
              /\ last.response.heads = 1
              /\ last.response.ends = 1
              /\ last.response.status \in {200, 301, 404, 500})
    /\ [][/\ (BagCardinality(inflight') < BagCardinality(inflight)) =>
                 \E req \in BagToSet(inflight) :
                     /\ inflight' = inflight (-) SetToBag({req})
                     /\ last'.listener = "https"
                     /\ last'.url = req.url
                     /\ last'.response.status \in {200, 404, 500}
          /\ (BagCardinality(inflight') > BagCardinality(inflight)) =>
                 /\ BagCardinality(inflight') = BagCardinality(inflight) + 1
                 /\ last' = last
          /\ (last' # last /\ inflight' = inflight) =>
                 /\ last'.listener = "http"
                 /\ last'.response.status = 301]_vars

\* C18 witness: server.js has answered a request on its HTTPS listener with
\* 500, in one writeHead and one end, while another request is being read.
C18_Witness ==
    /\ variant = "server.js"
    /\ Answered
    /\ last.response.status = 500
    /\ last.response.heads = 1
    /\ last.response.ends = 1
    /\ BagCardinality(inflight) = 1

\* Two responses with the same status, Content-Type and body.
SameAnswer(a, b) ==
    /\ a.status = b.status
    /\ a.ctype = b.ctype
    /\ a.body = b.body

\* C22: for the path of every request being read and of the request last
\* answered, and for the served directory as it is, the handler of
\* server.js and the handler of https-server.js give the same status, the
\* same Content-Type and the same body.
C22_HandlersEquivalent ==
    /\ \A req \in BagToSet(inflight) :
           SameAnswer(ServerJsAnswers[<<fs, req.url>>], Answers[<<fs, req.url>>])
    /\ Answered =>
           SameAnswer(ServerJsAnswers[<<fs, last.url>>], Answers[<<fs, last.url>>])

\* C22 witness: server.js listens on 8001, has answered /app.JS with 200 and
\* is reading for /, with index.html absent.
C22_Witness ==
    /\ variant = "server.js"
    /\ httpsPort = HttpsListenPort
    /\ Answered
    /\ last.url = ScriptUrl
    /\ last.response.status = 200
    /\ fs[IndexName] = "absent"
    /\ \E req \in BagToSet(inflight) : req.url = RootUrl

(***************************************************************************)
(* Properties of the client.                                               *)
(***************************************************************************)
\* C10: getUserMedia is called only after isSecureContext() has returned
\* true, in a context that is secure by that check (window.isSecureContext,
\* HTTPS or localhost); where the check fails no listener is installed and
\* no click on the allow-camera button leads to a camera request.
C10_CameraOnlyInSecureContext ==
    /\ (cameraRequests > 0 \/ tasks # <<>>) =>
           /\ checkPassed
           /\ env.isSecureContext \/ env.protocol = "https:"
                  \/ env.hostname = "localhost"
    /\ (loaded /\ ~(env.isSecureContext \/ env.protocol = "https:"
                        \/ env.hostname = "localhost")) =>
           /\ ~checkPassed
           /\ ~listeners
           /\ cameraRequests = 0
           /\ tasks = <<>>

\* C10 witness: the page was loaded over plain HTTP from another host, in a
\* context the browser does not hold secure; the user has clicked the button
\* as often as the model allows, and no camera request was made.
C10_Witness ==
    /\ loaded
    /\ ~env.isSecureContext
    /\ env.protocol = "http:"
    /\ env.hostname # "localhost"
    /\ env.mediaDevices
    /\ clicks = MaxClicks
    /\ cameraRequests = 0
    /\ dom.errorShown

\* The error element is shown with one of the client's messages.
ErrorVisible ==
    /\ dom.errorShown
    /\ dom.errorText \in {MsgHttps, MsgSdk, MsgStart, MsgCamera}
    /\ dom.errorText # ""

\* C11: once a camera request was denied, once the page was loaded with
\* WEBARSDK undefined, and once the start of the AR experience has failed
\* (WEBARSDK.init missing or rejected among the causes), the error element
\* is shown with a non-empty text, and stays shown.
C11_FailuresSurfaced ==
    /\ (loaded /\ checkPassed /\ env.sdk = "undefined") => ErrorVisible
    /\ \A t \in DOMAIN tasks :
           tasks[t].pc \in {"denied", "failed"} => ErrorVisible

\* C11 witness: WEBARSDK has no init; one camera request was denied and
\* another was granted and failed in the SDK initialization.
C11_Witness ==
    /\ env.sdk = "noInit"
    /\ \E t1, t2 \in DOMAIN tasks :
           tasks[t1].pc = "denied" /\ tasks[t2].pc = "failed"
    /\ dom.errorShown

\* C14: the element handed to createVideoTexture (the latest is kept in
\* videoTexture) is handed over with camera permission granted and the SDK
\* initialized, is muted, inline and looping, and has reported
\* loadedmetadata.
C14_TextureOnlyOfReadyVideo ==
    (app.videoTexture # 0) =>
        /\ app.isCameraAllowed
        /\ sdkCalls.init > 0
        /\ app.arScene
        /\ videos[app.videoTexture].muted
        /\ videos[app.videoTexture].playsInline
        /\ videos[app.videoTexture].loop
        /\ videos[app.videoTexture].loaded

\* A call of startARExperience has run to its end.
Started == \E t \in DOMAIN tasks : tasks[t].pc = "started"

\* C15: once the AR experience has started, a render loop exists and never
\* goes away, and every run of the render callback from then on updates the
\* texture and calls WEBARSDK.render; no run of the callback has called
\* WEBARSDK.render without the scene, the isInitialized flag, the texture
\* and the plane in place.
C15_RenderLoopRenders ==
    /\ [](/\ frame.rendered =>
                 /\ app.arScene /\ app.isInitialized
                 /\ app.videoTexture # 0 /\ app.videoPlane # 0
                 /\ Started
          /\ Started =>
                 /\ sdkCalls.renderLoops >= 1
                 /\ app.arScene /\ app.isInitialized /\ app.videoTexture # 0)
    /\ [][/\ (Started /\ frame' # frame) =>
                  (frame'.ran /\ frame'.textureUpdated /\ frame'.rendered)
          /\ sdkCalls'.renderLoops >= sdkCalls.renderLoops]_vars

\* C15 witness: the experience has started with no error shown, and an
\* animation frame has updated the texture and rendered.
C15_Witness ==
    /\ Started
    /\ ~dom.errorShown
    /\ frame.textureUpdated
    /\ frame.rendered

\* C16: the step in which a camera request is denied shows the camera
\* message, leaves isCameraAllowed as it was (false, unless another request
\* was granted), calls nothing of the SDK, creates no video and asks for
\* the camera no further; a denied request never goes on to start the
\* experience; and a camera request is made only in the step of a click.
C16_DenialNoRetry ==
    /\ [](/\ cameraRequests <= clicks
          /\ Len(tasks) = cameraRequests
          /\ (\A t \in DOMAIN tasks : tasks[t].pc \in {"getUserMedia", "denied"})
                 => (~app.isCameraAllowed /\ sdkCalls = NoSdkCalls
                        /\ videos = <<>>))
    /\ [][/\ \A t \in DOMAIN tasks :
                 /\ (tasks[t].pc = "denied") => (tasks'[t].pc = "denied")
                 /\ (tasks[t].pc = "getUserMedia" /\ tasks'[t].pc = "denied") =>
                        /\ dom'.errorShown
                        /\ dom'.errorText = MsgCamera
                        /\ app'.isCameraAllowed = app.isCameraAllowed
                        /\ cameraRequests' = cameraRequests
                        /\ Len(tasks') = Len(tasks)
                        /\ sdkCalls' = sdkCalls
                        /\ videos' = videos
          /\ (cameraRequests' # cameraRequests) =>
                 (clicks' = clicks + 1 /\ cameraRequests' = cameraRequests + 1)]_vars

\* C16 witness: the one camera request made was denied; the camera message
\* is shown, isCameraAllowed is false and nothing was asked of the SDK.
C16_Witness ==
    /\ cameraRequests = 1
    /\ tasks[1].pc = "denied"
    /\ dom.errorShown
    /\ dom.errorText = MsgCamera
    /\ ~app.isCameraAllowed
    /\ sdkCalls = NoSdkCalls

\* C17: while the document is hidden no video element of the client is
\* playing.
C17_NeverPlayingWhileHidden ==
    hidden => \A e \in DOMAIN videos : videos[e].paused

\* C19: the client has started at most one render loop, appended at most
\* one video element to the document and created at most one video plane.
C19_AtMostOneStart ==
    /\ sdkCalls.renderLoops <= 1
    /\ Len(videos) <= 1
    /\ sdkCalls.planes <= 1

\* C20: isInitialized is true only with no error shown and with the scene,
\* the video texture and the video plane created.
C20_InitializedOnlyWhenStarted ==
    app.isInitialized =>
        /\ ~dom.errorShown
        /\ app.arScene
        /\ app.videoTexture # 0
        /\ app.videoPlane # 0

\* C21: the permission prompt and the error message are never both shown.
C21_AtMostOneOverlay == ~(dom.promptShown /\ dom.errorShown)

====
